---------------------------- MODULE Spec2Model ----------------------------
(***************************************************************************)
(* The polling trading loops of common_algos/ema.py (EMA crossover) and    *)
(* common_algos/sma.py (price/SMA crossover) against a broker account.     *)
(*                                                                         *)
(* One run of the model is one run of one of the two scripts: `strategy`   *)
(* is chosen in Init and never changes.  The broker is the environment:    *)
(* it holds the real position (brokerPos), the orders it has accepted and  *)
(* not yet filled (pending) and the bar series it serves (market).         *)
(*                                                                         *)
(* Numbers.  Prices and indicator values are exact rationals <<num, den>>  *)
(* with den > 0; <<0, 0>> is NaN and every comparison with NaN is FALSE,   *)
(* as in IEEE arithmetic.  Floating-point rounding is not modelled.        *)
(* Quantities are counted in 1/QtyUnit shares, so that a holding smaller   *)
(* than one share is a state of the model.                                 *)
(***************************************************************************)
EXTENDS Integers, Sequences, FiniteSets

VARIABLES
    KEY_ID,           \* os.getenv("KEY_ID"): "unset", "empty" or "set"
    SECRET_KEY,       \* os.getenv("SECRET_KEY")
    strategy,         \* which script runs: "ema" or "sma" ("demo": test.py, direct calls only)
    pc,               \* position of the script's control
    position,         \* main: the quantity get_position returned
    historical_data,  \* main: the close column get_historical_data returned
    ema_df,           \* main (ema.py): the frame of calculate_ema_crossover_strategy
    sma_df,           \* main (sma.py): the frame of calculate_sma
    buy_signal,       \* main
    sell_signal,      \* main
    brokerPos,        \* broker: the position actually held
    pending,          \* broker: orders accepted and not yet filled
    market,           \* broker: the bars it serves (close prices, oldest first)
    accepted,         \* broker: number of orders accepted so far
    orders,           \* history: the place_order calls of the current cycle
    steps,            \* history: the steps of the current cycle, in order
    crossOrders,      \* history: orders accepted since the market last changed
    lastFill,         \* history: the fill that happened since the cycle began
    faults,           \* history: the collaborator calls that raised in the current cycle
    fn_in,            \* a direct call of an indicator function: its arguments
    fn_out            \* a direct call of an indicator function: what it returned

vars == <<KEY_ID, SECRET_KEY, strategy, pc, position, historical_data, ema_df,
          sma_df, buy_signal, sell_signal, brokerPos, pending, market,
          accepted, orders, steps, crossOrders, lastFill, faults, fn_in, fn_out>>

(* The variables of the direct calls, which the loops never touch. *)
callVars == <<fn_in, fn_out>>

---------------------------------------------------------------------------
(* Bounds of the model.  The window sizes are the scripts' constants       *)
(* scaled down (12, 26 and 20 in the source) so that every bar series up   *)
(* to MaxBars can be enumerated; they keep SHORT < LONG <= MaxBars.        *)

SHORT_EMA_WINDOW == 2
LONG_EMA_WINDOW == 3
SMA_WINDOW == 3
MaxBars == 4
MaxPrice == 2
QtyUnit == 2
MaxOrders == 2

(* Program constants. *)
LIMIT == 100

Prices == 1 .. MaxPrice

RECURSIVE SeqsUpTo(_, _)
SeqsUpTo(S, n) ==
    IF n = 0 THEN {<<>>}
    ELSE LET shorter == SeqsUpTo(S, n - 1)
         IN  shorter \cup {Append(s, x) : s \in {t \in shorter : Len(t) = n - 1}, x \in S}

BarSeries == SeqsUpTo(Prices, MaxBars)

(* A short holding, none, less than a share, one share, two shares. *)
InitPositions == {0 - QtyUnit, 0, 1, QtyUnit, 2 * QtyUnit}

---------------------------------------------------------------------------
(* Exact arithmetic *)

NaN == <<0, 0>>
Num(n) == <<n, 1>>
IsNaN(x) == x[2] = 0
GT(a, b) == ~IsNaN(a) /\ ~IsNaN(b) /\ a[1] * b[2] > b[1] * a[2]
LT(a, b) == ~IsNaN(a) /\ ~IsNaN(b) /\ a[1] * b[2] < b[1] * a[2]
GE(a, b) == ~IsNaN(a) /\ ~IsNaN(b) /\ a[1] * b[2] >= b[1] * a[2]
LE(a, b) == ~IsNaN(a) /\ ~IsNaN(b) /\ a[1] * b[2] <= b[1] * a[2]
EQ(a, b) == ~IsNaN(a) /\ ~IsNaN(b) /\ a[1] * b[2] = b[1] * a[2]

Last(s) == s[Len(s)]
Prev(s) == s[Len(s) - 1]
LastN(s, n) == IF Len(s) <= n THEN s ELSE SubSeq(s, Len(s) - n + 1, Len(s))

RECURSIVE SumRange(_, _, _)
SumRange(s, lo, hi) == IF lo > hi THEN 0 ELSE s[hi] + SumRange(s, lo, hi - 1)


---------------------------------------------------------------------------
(* Indicator Engine *)

(* close.ewm(span=window, adjust=False).mean(): y[0] = x[0] and            *)
(* y[i] = a*x[i] + (1-a)*y[i-1] with a = 2/(window+1), that is             *)
(* y[i] = (2*x[i] + (window-1)*y[i-1]) / (window+1).  ewm_step is one step  *)
(* of the recurrence; its faulty variants swap the two weights (a on the   *)
(* previous value, 1-a on the new one) and take a = 1/window.              *)
ewm_step_swapped(x, y, window) ==
    <<(window - 1) * x * y[2] + 2 * y[1], (window + 1) * y[2]>>

ewm_step_alpha(x, y, window) ==
    <<x * y[2] + (window - 1) * y[1], window * y[2]>>

ewm_step(x, y, window) ==
    <<2 * x * y[2] + (window - 1) * y[1], (window + 1) * y[2]>>

RECURSIVE ewm_mean(_, _)
ewm_mean(close, window) ==
    IF close = <<>> THEN <<>>
    ELSE IF Len(close) = 1 THEN <<Num(close[1])>>
    ELSE LET before == ewm_mean(SubSeq(close, 1, Len(close) - 1), window)
         IN  Append(before, ewm_step(close[Len(close)], Last(before), window))

calculate_ema(data, window) == ewm_mean(data, window)

(* close.rolling(window=window).mean(): NaN until the window is full.  The *)
(* faulty variant is rolling(window, min_periods=1): the mean of the bars  *)
(* there are.                                                              *)
rolling_mean_min_periods(close, window) ==
    [i \in 1 .. Len(close) |->
        IF i < window THEN <<SumRange(close, 1, i), i>>
        ELSE <<SumRange(close, i - window + 1, i), window>>]

rolling_mean(close, window) ==
    [i \in 1 .. Len(close) |->
        IF i < window THEN NaN ELSE <<SumRange(close, i - window + 1, i), window>>]

calculate_sma(data, window) == [close |-> data, sma |-> rolling_mean(data, window)]

(* np.where(short > long, 1, 0) and Series.diff(), whose first value is NaN. *)
signal_column(short, long) ==
    [i \in 1 .. Len(short) |-> IF GT(short[i], long[i]) THEN 1 ELSE 0]

diff(col) ==
    [i \in 1 .. Len(col) |-> IF i = 1 THEN NaN ELSE Num(col[i] - col[i - 1])]

calculate_ema_crossover_strategy(data, short_window, long_window) ==
    LET short == calculate_ema(data, short_window)
        long == calculate_ema(data, long_window)
        signal == signal_column(short, long)
    IN  [close |-> data, ema_short |-> short, ema_long |-> long,
         signal |-> signal, position |-> diff(signal)]

---------------------------------------------------------------------------
(* Crossover Detector: the conditions of main, on the latest two samples. *)

(* Faulty variant: the previous samples must be strictly ordered. *)
ema_buy_condition_strict(current_ema_short, current_ema_long, previous_ema_short, previous_ema_long) ==
    GT(current_ema_short, current_ema_long) /\ LT(previous_ema_short, previous_ema_long)

ema_buy_condition(current_ema_short, current_ema_long, previous_ema_short, previous_ema_long) ==
    GT(current_ema_short, current_ema_long) /\ LE(previous_ema_short, previous_ema_long)

ema_sell_condition(current_ema_short, current_ema_long, previous_ema_short, previous_ema_long) ==
    LT(current_ema_short, current_ema_long) /\ GE(previous_ema_short, previous_ema_long)

(* Faulty variant: `not (previous_sma > current_sma)`, true of an undefined *)
(* previous sample.                                                        *)
sma_buy_condition_not_above(current_price, current_sma, previous_sma) ==
    GT(current_price, current_sma) /\ ~GT(previous_sma, current_sma)

sma_buy_condition(current_price, current_sma, previous_sma) ==
    GT(current_price, current_sma) /\ LE(previous_sma, current_sma)

sma_sell_condition(current_price, current_sma, previous_sma) ==
    LT(current_price, current_sma) /\ GE(previous_sma, current_sma)

---------------------------------------------------------------------------
(* Position-Gated Executor *)

(* qty_to_buy = 1 and qty_to_sell = 1: one share.  The faulty variant     *)
(* sells whatever is held.                                                *)
qty_to_buy == 1 * QtyUnit
qty_to_sell_all == position
qty_to_sell == 1 * QtyUnit

Intent(side, qty) == [side |-> side, qty |-> qty]

(* Faulty variants of the executor, used to test the properties below:    *)
(* two independent ifs with a loosened second test; a buy branch without   *)
(* the position gate; a sell branch that submits a buy; a sell branch that *)
(* also fires when nothing is held; a sell branch that fires on any        *)
(* holding other than zero.                                                *)
Decision_two_ifs(buy, sell, pos) ==
    (IF buy /\ pos = 0 THEN <<Intent("buy", qty_to_buy)>> ELSE <<>>)
        \o (IF sell \/ pos >= 0 THEN <<Intent("sell", qty_to_sell)>> ELSE <<>>)

Decision_no_gate(buy, sell, pos) ==
    IF buy /\ pos >= 0 THEN <<Intent("buy", qty_to_buy)>>
    ELSE IF sell /\ pos > 0 THEN <<Intent("sell", qty_to_sell)>>
    ELSE <<>>

Decision_sell_as_buy(buy, sell, pos) ==
    IF buy /\ pos = 0 THEN <<Intent("buy", qty_to_buy)>>
    ELSE IF sell /\ pos > 0 THEN <<Intent("buy", qty_to_sell)>>
    ELSE <<>>

Decision_sell_when_flat(buy, sell, pos) ==
    IF buy /\ pos = 0 THEN <<Intent("buy", qty_to_buy)>>
    ELSE IF sell /\ pos >= 0 THEN <<Intent("sell", qty_to_sell)>>
    ELSE <<>>

Decision_sell_nonzero(buy, sell, pos) ==
    IF buy /\ pos = 0 THEN <<Intent("buy", qty_to_buy)>>
    ELSE IF sell /\ pos # 0 THEN <<Intent("sell", qty_to_sell)>>
    ELSE <<>>

(* The if / elif / else of main: the place_order calls it makes, in order. *)
Decision(buy, sell, pos) ==
    IF buy /\ pos = 0 THEN <<Intent("buy", qty_to_buy)>>
    ELSE IF sell /\ pos > 0 THEN <<Intent("sell", qty_to_sell)>>
    ELSE <<>>

(* The state the executor infers from a quantity. *)
State(qty) == IF qty = 0 THEN "FLAT" ELSE IF qty > 0 THEN "LONG" ELSE "OTHER"

(* DataFrame.empty; the faulty variant never reports an empty frame. *)
IsEmpty_never(data) == FALSE
IsEmpty(data) == Len(data) = 0

(* len(frame) < window; the faulty variant lets a frame one bar short pass. *)
NotEnough_off_by_one(frame, window) == Len(frame.close) < window - 1
NotEnough(frame, window) == Len(frame.close) < window

---------------------------------------------------------------------------
(* Broker collaborator *)

Env == {"unset", "empty", "set"}

(* `if not KEY_ID or not SECRET_KEY`: None and "" are both falsy.  The      *)
(* faulty variant aborts only when both are missing.                       *)
CredentialsMissing_both(key, secret) == key \in {"unset", "empty"} /\ secret \in {"unset", "empty"}

CredentialsMissing(key, secret) == key \in {"unset", "empty"} \/ secret \in {"unset", "empty"}

NoCall == [op |-> "none"]

NoFill == [side |-> "none", qty |-> 0, fetched |-> 0, before |-> 0, after |-> 0]

(* get_position: the quantity held, or 0.0 when api.get_position raises    *)
(* (no position exists, or the call failed).                               *)
get_position(held, raised) == IF raised \/ held = 0 THEN 0 ELSE held

(* get_historical_data: the bars, or an empty frame when there are none or *)
(* api.get_bars raises.                                                    *)
get_historical_data(bars, limit, raised) ==
    IF raised \/ IsEmpty(bars) THEN <<>> ELSE LastN(bars, limit)

(* place_order: api.submit_order hands the order to the broker, or raises  *)
(* and the order is dropped.  `fetched` records the quantity the cycle     *)
(* decided on.  The faulty variant submits again until the broker takes    *)
(* the order.                                                              *)
place_order_retry(book, intent, fetched, raised) ==
    Append(book, [side |-> intent.side, qty |-> intent.qty, fetched |-> fetched])

place_order(book, intent, fetched, raised) ==
    IF raised THEN book
    ELSE Append(book, [side |-> intent.side, qty |-> intent.qty, fetched |-> fetched])

RECURSIVE PlaceAll(_, _, _, _)
PlaceAll(book, intents, fetched, raised) ==
    IF intents = <<>> THEN book
    ELSE PlaceAll(place_order(book, Head(intents), fetched, Head(raised)),
                  Tail(intents), fetched, Tail(raised))

(* The bars the broker serves after some time has passed. *)
NextMarket(bars, close) ==
    IF Len(bars) < MaxBars THEN Append(bars, close) ELSE Append(Tail(bars), close)

---------------------------------------------------------------------------
(* The scripts *)

Init ==
    /\ KEY_ID \in Env
    /\ SECRET_KEY \in Env
    /\ strategy \in {"ema", "sma"}
    /\ pc = "startup"
    /\ position = 0
    /\ historical_data = <<>>
    /\ ema_df = calculate_ema_crossover_strategy(<<>>, SHORT_EMA_WINDOW, LONG_EMA_WINDOW)
    /\ sma_df = calculate_sma(<<>>, SMA_WINDOW)
    /\ buy_signal = FALSE
    /\ sell_signal = FALSE
    /\ brokerPos \in InitPositions
    /\ pending = <<>>
    /\ market \in BarSeries
    /\ accepted = 0
    /\ orders = <<>>
    /\ steps = <<>>
    /\ crossOrders = 0
    /\ lastFill = NoFill
    /\ faults = {}
    /\ fn_in = NoCall
    /\ fn_out = NoCall

(* Module level: the credentials check before main() is entered. *)
Startup ==
    /\ pc = "startup"
    /\ pc' = IF CredentialsMissing(KEY_ID, SECRET_KEY) THEN "aborted" ELSE "get_position"
    /\ UNCHANGED faults
    /\ UNCHANGED <<callVars, KEY_ID, SECRET_KEY, strategy, position, historical_data, ema_df,
                   sma_df, buy_signal, sell_signal, brokerPos, pending, market,
                   accepted, orders, steps, crossOrders, lastFill>>

(* position = get_position(symbol=SYMBOL): the first step of a cycle. *)
GetPosition ==
    /\ pc = "get_position"
    /\ \E raised \in BOOLEAN :
          /\ position' = get_position(brokerPos, raised)
          /\ faults' = IF raised THEN {"position"} ELSE {}
    /\ pc' = "get_historical_data"
    /\ steps' = <<"get_position">>
    /\ orders' = <<>>
    /\ lastFill' = NoFill
    /\ UNCHANGED <<callVars, KEY_ID, SECRET_KEY, strategy, historical_data, ema_df, sma_df,
                   buy_signal, sell_signal, brokerPos, pending, market, accepted,
                   crossOrders>>

(* historical_data = get_historical_data(SYMBOL, timeframe=TIMEFRAME, limit=LIMIT) *)
GetHistoricalData ==
    /\ pc = "get_historical_data"
    /\ \E raised \in BOOLEAN :
          /\ historical_data' = get_historical_data(market, LIMIT, raised)
          /\ faults' = IF raised THEN faults \cup {"bars"} ELSE faults
    /\ pc' = "check_empty"
    /\ steps' = Append(steps, "get_historical_data")
    /\ UNCHANGED <<callVars, KEY_ID, SECRET_KEY, strategy, position, ema_df, sma_df, buy_signal,
                   sell_signal, brokerPos, pending, market, accepted, orders,
                   crossOrders, lastFill>>

(* if historical_data.empty: print, sleep, continue.  The faulty variant    *)
(* continues without the sleep.                                            *)
SkipNoData_no_sleep ==
    /\ pc = "check_empty"
    /\ IsEmpty(historical_data)
    /\ pc' = "get_position"
    /\ steps' = Append(steps, "print_skip_no_data")
    /\ UNCHANGED faults
    /\ UNCHANGED <<callVars, KEY_ID, SECRET_KEY, strategy, position, historical_data, ema_df,
                   sma_df, buy_signal, sell_signal, brokerPos, pending, market,
                   accepted, orders, crossOrders, lastFill>>

SkipNoData ==
    /\ pc = "check_empty"
    /\ IsEmpty(historical_data)
    /\ pc' = "sleep"
    /\ steps' = Append(steps, "print_skip_no_data")
    /\ UNCHANGED faults
    /\ UNCHANGED <<callVars, KEY_ID, SECRET_KEY, strategy, position, historical_data, ema_df,
                   sma_df, buy_signal, sell_signal, brokerPos, pending, market,
                   accepted, orders, crossOrders, lastFill>>

(* ema_df = calculate_ema_crossover_strategy(...) / sma_df = calculate_sma(...) *)
(* The frame main computes, tabulated over the series a fetch can return.  *)
EmaFrames ==
    [data \in BarSeries |->
        calculate_ema_crossover_strategy(data, SHORT_EMA_WINDOW, LONG_EMA_WINDOW)]

SmaFrames == [data \in BarSeries |-> calculate_sma(data, SMA_WINDOW)]

Calculate ==
    /\ pc = "check_empty"
    /\ ~IsEmpty(historical_data)
    /\ IF strategy = "ema"
       THEN /\ ema_df' = EmaFrames[historical_data]
            /\ UNCHANGED sma_df
       ELSE /\ sma_df' = SmaFrames[historical_data]
            /\ UNCHANGED ema_df
    /\ pc' = "check_length"
    /\ steps' = Append(steps, "calculate")
    /\ UNCHANGED faults
    /\ UNCHANGED <<callVars, KEY_ID, SECRET_KEY, strategy, position, historical_data, buy_signal,
                   sell_signal, brokerPos, pending, market, accepted, orders,
                   crossOrders, lastFill>>

(* if len(ema_df) < LONG_EMA_WINDOW / len(sma_df) < SMA_WINDOW: print, sleep, continue *)
TooShort ==
    IF strategy = "ema" THEN NotEnough(ema_df, LONG_EMA_WINDOW)
    ELSE NotEnough(sma_df, SMA_WINDOW)

SkipNotEnough ==
    /\ pc = "check_length"
    /\ TooShort
    /\ pc' = "sleep"
    /\ steps' = Append(steps, "print_not_enough_data")
    /\ UNCHANGED faults
    /\ UNCHANGED <<callVars, KEY_ID, SECRET_KEY, strategy, position, historical_data, ema_df,
                   sma_df, buy_signal, sell_signal, brokerPos, pending, market,
                   accepted, orders, crossOrders, lastFill>>

(* The latest values and the two signals. *)
GenerateSignals ==
    /\ pc = "check_length"
    /\ ~TooShort
    /\ IF strategy = "ema"
       THEN LET current_ema_short == Last(ema_df.ema_short)
                current_ema_long == Last(ema_df.ema_long)
                previous_ema_short == Prev(ema_df.ema_short)
                previous_ema_long == Prev(ema_df.ema_long)
            IN  /\ buy_signal' = ema_buy_condition(current_ema_short, current_ema_long,
                                                   previous_ema_short, previous_ema_long)
                /\ sell_signal' = ema_sell_condition(current_ema_short, current_ema_long,
                                                     previous_ema_short, previous_ema_long)
       ELSE LET current_price == Num(Last(sma_df.close))
                current_sma == Last(sma_df.sma)
                previous_sma == Prev(sma_df.sma)
            IN  /\ buy_signal' = sma_buy_condition(current_price, current_sma, previous_sma)
                /\ sell_signal' = sma_sell_condition(current_price, current_sma, previous_sma)
    /\ pc' = "execute"
    /\ steps' = Append(steps, "signals")
    /\ UNCHANGED faults
    /\ UNCHANGED <<callVars, KEY_ID, SECRET_KEY, strategy, position, historical_data, ema_df,
                   sma_df, brokerPos, pending, market, accepted, orders, crossOrders,
                   lastFill>>

(* EXECUTE BUY ORDER / EXECUTE SELL ORDER / else: no trading signal.       *)
(* The broker accepts at most MaxOrders orders in a run and rejects the    *)
(* rest (api.submit_order raises).                                         *)
Execute ==
    /\ pc = "execute"
    /\ LET intents == Decision(buy_signal, sell_signal, position)
       IN  /\ orders' = orders \o intents
           /\ \E raised \in [1 .. Len(intents) -> BOOLEAN] :
                 LET book == PlaceAll(pending, intents, position, raised)
                     n == Len(book) - Len(pending)
                 IN  /\ accepted + n <= MaxOrders
                     /\ pending' = book
                     /\ accepted' = accepted + n
                     /\ crossOrders' = crossOrders + n
                     /\ faults' = IF \E i \in DOMAIN raised : raised[i]
                                  THEN faults \cup {"order"} ELSE faults
           /\ steps' = IF intents = <<>> THEN Append(steps, "print_no_signal")
                       ELSE steps \o [i \in 1 .. Len(intents) |-> "place_order"]
    /\ pc' = "sleep"
    /\ UNCHANGED <<callVars, KEY_ID, SECRET_KEY, strategy, position, historical_data, ema_df,
                   sma_df, buy_signal, sell_signal, brokerPos, market, lastFill>>

(* time.sleep(SLEEP_INTERVAL): time passes, the broker may have a new bar. *)
(* The locals of main are dead here: the next iteration assigns each of    *)
(* them before it reads it, so the model forgets their values.             *)
Sleep ==
    /\ pc = "sleep"
    /\ pc' = "get_position"
    /\ steps' = Append(steps, "sleep")
    /\ \E bars \in {market} \cup {NextMarket(market, c) : c \in Prices} :
          /\ market' = bars
          /\ crossOrders' = IF bars = market THEN crossOrders ELSE 0
    /\ position' = 0
    /\ historical_data' = <<>>
    /\ ema_df' = calculate_ema_crossover_strategy(<<>>, SHORT_EMA_WINDOW, LONG_EMA_WINDOW)
    /\ sma_df' = calculate_sma(<<>>, SMA_WINDOW)
    /\ buy_signal' = FALSE
    /\ sell_signal' = FALSE
    /\ UNCHANGED faults
    /\ UNCHANGED <<callVars, KEY_ID, SECRET_KEY, strategy, brokerPos, pending, accepted, orders,
                   lastFill>>

(* The broker fills the oldest accepted order, at any time. *)
Fill ==
    /\ pending # <<>>
    /\ LET o == Head(pending)
           after == IF o.side = "buy" THEN brokerPos + o.qty ELSE brokerPos - o.qty
       IN  /\ brokerPos' = after
           /\ lastFill' = [side |-> o.side, qty |-> o.qty, fetched |-> o.fetched,
                           before |-> brokerPos, after |-> after]
    /\ pending' = Tail(pending)
    /\ UNCHANGED faults
    /\ UNCHANGED <<callVars, KEY_ID, SECRET_KEY, strategy, pc, position, historical_data, ema_df,
                   sma_df, buy_signal, sell_signal, market, accepted, orders, steps,
                   crossOrders>>

Next ==
    \/ Startup
    \/ GetPosition
    \/ GetHistoricalData
    \/ SkipNoData
    \/ Calculate
    \/ SkipNotEnough
    \/ GenerateSignals
    \/ Execute
    \/ Sleep
    \/ Fill

Spec == Init /\ [][Next]_vars

(* The script is a running process: whenever it has a next step it takes   *)
(* it (every collaborator call returns or raises, the sleep ends).  The    *)
(* broker is under no obligation to fill.                                  *)
MainStep ==
    \/ Startup
    \/ GetPosition
    \/ GetHistoricalData
    \/ SkipNoData
    \/ Calculate
    \/ SkipNotEnough
    \/ GenerateSignals
    \/ Execute
    \/ Sleep

FairSpec == Spec /\ WF_vars(MainStep)

---------------------------------------------------------------------------
(* Properties *)

(* The fixed order quantity of the claims: one share. *)
OneShare == 1 * QtyUnit

Did(step) == \E i \in DOMAIN steps : steps[i] = step
Sides == {orders[i].side : i \in DOMAIN orders}

(* The cycle evaluated its signals and has passed the executor. *)
Decided == pc = "sleep" /\ Did("signals")

(* A fill of the only outstanding order of a cycle that fetched the        *)
(* position the broker really held: nothing else moved the position        *)
(* between the fetch and the fill.                                         *)
FilledAsFetched(side) ==
    /\ lastFill.side = side
    /\ lastFill.before = lastFill.fetched

(* C1: in every cycle of both loops at most one order is submitted, and a  *)
(* buy and a sell are never both submitted in the same cycle.              *)
C1_AtMostOneOrderPerCycle ==
    /\ Len(orders) <= 1
    /\ ~({"buy", "sell"} \subseteq Sides)

C1_Witness ==
    /\ pc = "sleep"
    /\ strategy = "sma"
    /\ orders = <<Intent("sell", qty_to_sell)>>

(* C2: the EMA loop submits at most one order per detected crossover:      *)
(* while the broker serves the same bars, polls after the first never add  *)
(* a second accepted order, whether or not fills and position fetches      *)
(* keep up.                                                                *)
C2_OneOrderPerCrossover == strategy = "ema" => crossOrders <= 1

NoActionCase ==
    \/ position = 0 /\ ~buy_signal
    \/ position > 0 /\ ~sell_signal

C6_NoActionLeavesBrokerUnchanged ==
    [][(pc = "execute" /\ pc' = "sleep" /\ NoActionCase)
          => /\ orders' = <<>>
             /\ Last(steps') = "print_no_signal"
             /\ UNCHANGED <<pending, accepted, brokerPos>>]_vars

C6_Witness ==
    /\ Decided
    /\ position > 0
    /\ buy_signal
    /\ orders = <<>>
    /\ brokerPos = position

(* C7: in the EMA loop the buy signal is raised exactly when the short EMA *)
(* was at or below the long EMA one bar ago and is strictly above it now,  *)
(* the sell signal exactly when it was at or above and is strictly below   *)
(* now; equal EMAs at both bars raise neither.                             *)
C7_EmaSignalsAreCrossovers ==
    (pc = "execute" /\ strategy = "ema") =>
        LET A == ema_df.ema_short
            B == ema_df.ema_long
            t == Len(historical_data)
        IN  /\ buy_signal <=> (LE(A[t - 1], B[t - 1]) /\ GT(A[t], B[t]))
            /\ sell_signal <=> (GE(A[t - 1], B[t - 1]) /\ LT(A[t], B[t]))
            /\ (EQ(A[t - 1], B[t - 1]) /\ EQ(A[t], B[t])) => (~buy_signal /\ ~sell_signal)

(* The short EMA was equal to the long EMA and has crossed above it. *)
C7_Witness ==
    /\ pc = "execute"
    /\ strategy = "ema"
    /\ buy_signal
    /\ EQ(Prev(ema_df.ema_short), Prev(ema_df.ema_long))

(* C8: in the price/SMA loop, for every series with at least two defined   *)
(* SMA samples, the buy signal is raised exactly when the close was at or  *)
(* below the SMA one bar ago and is strictly above it now, the sell signal *)
(* exactly when it was at or above and is strictly below now.              *)
C8_SmaSignalsAreCrossovers ==
    (pc = "execute" /\ strategy = "sma" /\ Len(historical_data) > SMA_WINDOW) =>
        LET A == [i \in DOMAIN sma_df.close |-> Num(sma_df.close[i])]
            B == sma_df.sma
            t == Len(historical_data)
        IN  /\ buy_signal <=> (LE(A[t - 1], B[t - 1]) /\ GT(A[t], B[t]))
            /\ sell_signal <=> (GE(A[t - 1], B[t - 1]) /\ LT(A[t], B[t]))

(* C9: in both loops, when the latest two samples of both series are       *)
(* equal (A[t] = A[t-1] and B[t] = B[t-1]) no signal is raised.            *)
NonTransition ==
    IF strategy = "ema"
    THEN /\ EQ(Last(ema_df.ema_short), Prev(ema_df.ema_short))
         /\ EQ(Last(ema_df.ema_long), Prev(ema_df.ema_long))
    ELSE /\ Last(sma_df.close) = Prev(sma_df.close)
         /\ EQ(Last(sma_df.sma), Prev(sma_df.sma))

C9_NoSignalWithoutTransition ==
    (pc = "execute" /\ NonTransition) => (~buy_signal /\ ~sell_signal)

(* C10: a cycle whose bar fetch returned an empty series computes no       *)
(* indicator, submits no order whatever the fetched position, reports the  *)
(* skip and goes to its sleep.                                             *)
C10_EmptyBarsSkipCycle ==
    /\ (pc \in {"check_length", "execute"}) => historical_data # <<>>
    /\ (pc = "sleep" /\ historical_data = <<>>)
          => /\ steps = <<"get_position", "get_historical_data", "print_skip_no_data">>
             /\ orders = <<>>
             /\ ema_df.close = <<>>
             /\ sma_df.close = <<>>

(* The fetch failed while the broker had bars and a position was held. *)
C10_Witness ==
    /\ pc = "sleep"
    /\ historical_data = <<>>
    /\ market # <<>>
    /\ position > 0
    /\ Did("print_skip_no_data")

(* C11: a cycle that fetched some bars, but fewer than the longest window  *)
(* (LONG_EMA_WINDOW in the EMA loop, SMA_WINDOW in the SMA loop), is       *)
(* skipped: it evaluates no crossover and submits no order, whatever the   *)
(* position and the prices.                                                *)
LongestWindow == IF strategy = "ema" THEN LONG_EMA_WINDOW ELSE SMA_WINDOW

FewBars == Len(historical_data) > 0 /\ Len(historical_data) < LongestWindow

C11_FewBarsSkipCycle ==
    /\ pc = "execute" => ~FewBars
    /\ (pc = "sleep" /\ FewBars)
          => /\ steps = <<"get_position", "get_historical_data", "calculate",
                          "print_not_enough_data">>
             /\ orders = <<>>
             /\ ~buy_signal
             /\ ~sell_signal

(* One bar short of the window, while a position is held. *)
C11_Witness ==
    /\ pc = "sleep"
    /\ Len(historical_data) = LongestWindow - 1
    /\ position > 0
    /\ Did("print_not_enough_data")

(* C12: a failure of the position fetch, of the bar fetch or of the order *)
(* submission is never fatal.  A failed position fetch yields quantity 0,  *)
(* a failed bar fetch an empty series, a failed order is neither retried   *)
(* nor queued (the cycle made one place_order call and the broker's book   *)
(* is as it was); and every cycle reaches its sleep, after which the next  *)
(* cycle begins with a position fetch.                                     *)
C12_FailuresAreNotFatal ==
    /\ []("position" \in faults => position = 0)
    /\ []("bars" \in faults => historical_data = <<>>)
    /\ [][(pc = "execute" /\ pc' = "sleep" /\ "order" \in faults')
             => /\ Len(orders') = 1
                /\ pending' = pending
                /\ accepted' = accepted]_vars
    /\ (pc = "get_historical_data") ~> (pc = "sleep")
    /\ (pc = "sleep") ~> (pc = "get_position")

(* A cycle whose position fetch and order submission both failed has slept *)
(* and the next cycle is about to fetch the position.                      *)
C12_Witness ==
    /\ pc = "get_position"
    /\ faults = {"position", "order"}
    /\ Last(steps) = "sleep"
    /\ pending = <<>>
    /\ brokerPos # 0


---------------------------------------------------------------------------
(* Direct calls of the indicator functions                                 *)
(*                                                                         *)
(* A caller imports one of the modules (ema.py and sma.py need the         *)
(* credentials to be set), builds a frame with a close column and calls    *)
(* calculate_ema, calculate_sma or the functions of the demo script on it  *)
(* with windows of its choice.  The loop does not run: pc stays "call".  fn_in is the caller's frame and window, fn_out   *)
(* the frame the function returned.                                        *)

CallMaxLen == 4
CallMaxPrice == 4
CallMaxWindow == 4

CallSeries == SeqsUpTo(1 .. CallMaxPrice, CallMaxLen)

(* The arguments of a call: a frame and one window, or two for the demo.   *)
CallArgs(module) ==
    IF module = "demo"
    THEN {args \in [op : {"args"}, data : [close : CallSeries],
                    short_window : 1 .. CallMaxWindow, long_window : 1 .. CallMaxWindow] :
             args.short_window < args.long_window}
    ELSE [op : {"args"}, data : [close : CallSeries], window : 1 .. CallMaxWindow]

CallInit ==
    /\ KEY_ID = "set"
    /\ SECRET_KEY = "set"
    /\ strategy \in {"ema", "sma", "demo"}
    /\ pc = "call"
    /\ position = 0
    /\ historical_data = <<>>
    /\ ema_df = calculate_ema_crossover_strategy(<<>>, SHORT_EMA_WINDOW, LONG_EMA_WINDOW)
    /\ sma_df = calculate_sma(<<>>, SMA_WINDOW)
    /\ buy_signal = FALSE
    /\ sell_signal = FALSE
    /\ brokerPos = 0
    /\ pending = <<>>
    /\ market = <<>>
    /\ accepted = 0
    /\ orders = <<>>
    /\ steps = <<>>
    /\ crossOrders = 0
    /\ lastFill = NoFill
    /\ faults = {}
    /\ fn_in \in CallArgs(strategy)
    /\ fn_out = NoCall

(* df = data.copy(): a new frame with the same columns, which shares       *)
(* nothing with the caller's.                                              *)
copy(data) == [frame |-> data, shared |-> FALSE]

(* calculate_ema(data, window) of ema.py: the copy with the column         *)
(* ema_<window> added.  A column added to a frame the caller shares would  *)
(* show in the caller's frame.                                             *)
CallCalculateEma ==
    /\ pc = "call"
    /\ strategy = "ema"
    /\ fn_in # NoCall
    /\ fn_out = NoCall
    /\ LET df == copy(fn_in.data)
           out == [close |-> df.frame.close,
                   ema |-> calculate_ema(df.frame.close, fn_in.window)]
       IN  /\ fn_out' = [op |-> "calculate_ema", df |-> out]
           /\ fn_in' = IF df.shared THEN [fn_in EXCEPT !.data = out] ELSE fn_in
    /\ UNCHANGED <<KEY_ID, SECRET_KEY, strategy, pc, position, historical_data,
                   ema_df, sma_df, buy_signal, sell_signal, brokerPos, pending, market,
                   accepted, orders, steps, crossOrders, lastFill, faults>>

(* calculate_sma(data, window) of sma.py: the copy with the column sma. *)
CallCalculateSma ==
    /\ pc = "call"
    /\ strategy = "sma"
    /\ fn_in # NoCall
    /\ fn_out = NoCall
    /\ LET df == copy(fn_in.data)
           out == calculate_sma(df.frame.close, fn_in.window)
       IN  /\ fn_out' = [op |-> "calculate_sma", df |-> out]
           /\ fn_in' = IF df.shared THEN [fn_in EXCEPT !.data = out] ELSE fn_in
    /\ UNCHANGED <<KEY_ID, SECRET_KEY, strategy, pc, position, historical_data,
                   ema_df, sma_df, buy_signal, sell_signal, brokerPos, pending, market,
                   accepted, orders, steps, crossOrders, lastFill, faults>>

(* The demo script test.py.  Its functions work on the caller's frame in  *)
(* place: calculate_emas adds the two EMA columns, identify_crossovers the *)
(* columns Signal and Position, plot_ema_crossover selects the rows it     *)
(* marks.  Rows are numbered from 1 here, so the slice [short_window:] is  *)
(* the rows i > short_window.                                              *)
calculate_emas(data, short_window, long_window) ==
    [close |-> data.close,
     ema_short |-> ewm_mean(data.close, short_window),
     ema_long |-> ewm_mean(data.close, long_window)]

(* data['Signal'][short_window:] = value is a chained assignment: it       *)
(* writes into the frame in a pandas without copy-on-write and into a      *)
(* temporary, leaving the column as it was, in a pandas with it.           *)
chained_assign(column, short_window, value, writes) ==
    [i \in DOMAIN column |-> IF writes /\ i > short_window THEN value[i] ELSE column[i]]

identify_crossovers(data, short_window, long_window, writes) ==
    LET zero == [i \in DOMAIN data.close |-> 0]
        above == [i \in DOMAIN data.close |->
                     IF GT(data.ema_short[i], data.ema_long[i]) THEN 1 ELSE 0]
        first == chained_assign(zero, short_window, above, writes)
        below == [i \in DOMAIN data.close |->
                     IF LT(data.ema_short[i], data.ema_long[i]) THEN 0 - 1 ELSE first[i]]
        Signal == chained_assign(first, short_window, below, writes)
    IN  [close |-> data.close, ema_short |-> data.ema_short, ema_long |-> data.ema_long,
         Signal |-> Signal, Position |-> diff(Signal)]

(* data[data['Position'] == 2] and data[data['Position'] == -2] *)
buy_signals(data) == {i \in DOMAIN data.Position : EQ(data.Position[i], Num(2))}
sell_signals(data) == {i \in DOMAIN data.Position : EQ(data.Position[i], Num(0 - 2))}

(* calculate_emas, identify_crossovers and plot_ema_crossover, in the      *)
(* order the script calls them, on a frame of the caller's.                *)
CallPlotEmaCrossover ==
    /\ pc = "call"
    /\ strategy = "demo"
    /\ fn_in # NoCall
    /\ fn_out = NoCall
    /\ \E writes \in BOOLEAN :
          LET emas == calculate_emas(fn_in.data, fn_in.short_window, fn_in.long_window)
              data == identify_crossovers(emas, fn_in.short_window, fn_in.long_window, writes)
          IN  /\ fn_out' = [op |-> "plot_ema_crossover", df |-> data,
                            buy_signals |-> buy_signals(data),
                            sell_signals |-> sell_signals(data)]
              /\ fn_in' = [fn_in EXCEPT !.data = data]
    /\ UNCHANGED <<KEY_ID, SECRET_KEY, strategy, pc, position, historical_data,
                   ema_df, sma_df, buy_signal, sell_signal, brokerPos, pending, market,
                   accepted, orders, steps, crossOrders, lastFill, faults>>

CallNext ==
    \/ CallCalculateEma
    \/ CallCalculateSma
    \/ CallPlotEmaCrossover

CallSpec == CallInit /\ [][CallNext]_vars

(* Exact sums and products, and the mean of a series. *)
Plus(a, b) == <<a[1] * b[2] + b[1] * a[2], a[2] * b[2]>>
Times(a, b) == <<a[1] * b[1], a[2] * b[2]>>

RECURSIVE Total(_)
Total(s) == IF s = <<>> THEN 0 ELSE Head(s) + Total(Tail(s))

Mean(s) == <<Total(s), Len(s)>>

StrictlyIncreasing(s) == \A i \in 2 .. Len(s) : s[i] > s[i - 1]

Returned(op) == fn_out.op = op

Recurrence(close, ema, window) ==
    LET a == <<2, window + 1>>
        b == <<window - 1, window + 1>>
    IN  /\ Len(ema) = Len(close)
        /\ Len(close) > 0 => EQ(ema[1], Num(close[1]))
        /\ \A i \in 2 .. Len(close) :
              EQ(ema[i], Plus(Times(a, Num(close[i])), Times(b, ema[i - 1])))

C14_EmaIsUnadjustedRecurrence ==
    /\ [](Returned("calculate_ema")
            => /\ fn_out.df.close = fn_in.data.close
               /\ Recurrence(fn_in.data.close, fn_out.df.ema, fn_in.window))
    /\ [][fn_out'.op = "calculate_ema" => fn_in' = fn_in]_vars

(* A series that moves both ways, seen through a window longer than one.   *)
C14_Witness ==
    /\ Returned("calculate_ema")
    /\ fn_in.window > 1
    /\ Len(fn_in.data.close) = CallMaxLen
    /\ ~StrictlyIncreasing(fn_in.data.close)
    /\ fn_in.data.close[1] < fn_in.data.close[2]
    /\ DOMAIN fn_in.data = {"close"}

(* C15: calculate_sma returns a series index-aligned with its input whose  *)
(* value at every index i >= window-1 is the arithmetic mean of exactly    *)
(* the window closes at i-window+1 .. i and whose value at every index     *)
(* i < window-1 is undefined.  (Indices here are 1-based: i >= window.)    *)
C15_SmaIsWindowMean ==
    Returned("calculate_sma") =>
        LET close == fn_in.data.close
            sma == fn_out.df.sma
            window == fn_in.window
        IN  /\ fn_out.df.close = close
            /\ DOMAIN sma = DOMAIN close
            /\ \A i \in DOMAIN close :
                  IF i >= window
                  THEN EQ(sma[i], Mean(SubSeq(close, i - window + 1, i)))
                  ELSE IsNaN(sma[i])

(* Some values are undefined, some are means of a moving window. *)
C15_Witness ==
    /\ Returned("calculate_sma")
    /\ fn_in.window > 1
    /\ Len(fn_in.data.close) > fn_in.window
    /\ fn_in.data.close[1] # fn_in.data.close[Len(fn_in.data.close)]

(* C16: in the price/SMA loop, when the previous SMA sample is undefined    *)
(* (the fetched series is exactly as long as the window, so only the       *)
(* latest sample is defined), neither signal is raised and the cycle       *)
(* submits no order, even when the current price is above or below the     *)
(* current SMA.                                                            *)
OneDefinedSample ==
    /\ strategy = "sma"
    /\ pc = "execute" \/ Decided
    /\ IsNaN(Prev(sma_df.sma))

C16_UndefinedPreviousSampleIsNone ==
    /\ (strategy = "sma" /\ (pc = "execute" \/ Decided))
          => (IsNaN(Prev(sma_df.sma)) <=> Len(historical_data) = SMA_WINDOW)
    /\ OneDefinedSample
          => /\ ~buy_signal
             /\ ~sell_signal
             /\ pc = "sleep" => (orders = <<>> /\ Last(steps) = "print_no_signal")

(* Flat, the price above the only defined SMA sample: it looks crossed. *)
C16_Witness ==
    /\ OneDefinedSample
    /\ pc = "sleep"
    /\ position = 0
    /\ GT(Num(Last(sma_df.close)), Last(sma_df.sma))

(* C17: when KEY_ID or SECRET_KEY is unset or empty the program aborts      *)
(* before the loop starts: no position fetch, no bar fetch and no order    *)
(* submission ever happens.                                                *)
ConfigurationMissing ==
    \/ KEY_ID = "unset"
    \/ KEY_ID = "empty"
    \/ SECRET_KEY = "unset"
    \/ SECRET_KEY = "empty"

C17_MissingCredentialsAbortBeforeLoop ==
    ConfigurationMissing
        => /\ pc \in {"startup", "aborted"}
           /\ steps = <<>>
           /\ orders = <<>>
           /\ faults = {}
           /\ pending = <<>>
           /\ accepted = 0
           /\ lastFill = NoFill

(* One of the two is there, the other is the empty string. *)
C17_Witness ==
    /\ pc = "aborted"
    /\ KEY_ID = "set"
    /\ SECRET_KEY = "empty"
    /\ brokerPos > 0
    /\ market # <<>>

(* C18: every cycle runs its steps in the order position fetch, bar fetch,  *)
(* indicator computation, decision, optional order submission, sleep.  The *)
(* sleep happens exactly once per cycle, as the last step of every path    *)
(* (the two skip paths included), never between the decision and the       *)
(* order submission, and no step of the next cycle starts before it.       *)
CyclePaths ==
    { <<"get_position", "get_historical_data", "print_skip_no_data", "sleep">>,
      <<"get_position", "get_historical_data", "calculate", "print_not_enough_data", "sleep">>,
      <<"get_position", "get_historical_data", "calculate", "signals", "place_order", "sleep">>,
      <<"get_position", "get_historical_data", "calculate", "signals", "print_no_signal", "sleep">> }

IsPrefix(s, t) == Len(s) <= Len(t) /\ s = SubSeq(t, 1, Len(s))

C18_CycleStepsInOrder ==
    /\ [](\E path \in CyclePaths : IsPrefix(steps, path))
    /\ []((pc = "get_position" /\ steps # <<>>) => steps \in CyclePaths)
    /\ [][steps' # steps
            => \/ steps' = <<"get_position">> /\ (steps = <<>> \/ Last(steps) = "sleep")
               \/ Len(steps') = Len(steps) + 1 /\ IsPrefix(steps, steps')]_vars

(* A cycle that submitted an order has slept; the next has not begun. *)
C18_Witness ==
    /\ pc = "get_position"
    /\ steps = <<"get_position", "get_historical_data", "calculate", "signals",
                 "place_order", "sleep">>

(* C19, as claimed: a cycle that fetched a negative quantity submits no     *)
(* order, whatever the crossover, and over any sequence of cycles the      *)
(* orders of the loop never open a short position (take the holding from   *)
(* zero or more to less than zero) and never enlarge, reduce or close one. *)
C19_ShortPositionNeverTouched ==
    /\ []((Decided /\ position < 0) => orders = <<>>)
    /\ [][/\ brokerPos >= 0 => brokerPos' >= 0
          /\ brokerPos < 0 => brokerPos' = brokerPos]_vars

(* C19, amended: a cycle that fetched a negative quantity submits no order *)
(* whatever the crossover: its executor step reports that there is no      *)
(* signal to act on and leaves the broker's order book, the number of      *)
(* accepted orders and the held position as they were.  (Cycles that       *)
(* fetched another quantity can open a short or close one.)                *)
C19_NegativeFetchSubmitsNothing ==
    /\ []((Decided /\ position < 0)
            => (orders = <<>> /\ Last(steps) = "print_no_signal"))
    /\ [][(pc = "execute" /\ pc' = "sleep" /\ position < 0)
            => UNCHANGED <<pending, accepted, brokerPos>>]_vars

(* Short, and the bars show a bearish crossover. *)
C19_Witness ==
    /\ Decided
    /\ position < 0
    /\ brokerPos = position
    /\ sell_signal
    /\ orders = <<>>

(* C20: at the latest bar the position column of                           *)
(* calculate_ema_crossover_strategy agrees with the signals the EMA loop   *)
(* derives from the same two samples: it is +1 exactly when buy_signal is  *)
(* true, -1 exactly when sell_signal is true, and 0 when neither is.       *)
C20_PositionColumnAgreesWithSignals ==
    (pc = "execute" /\ strategy = "ema") =>
        LET latest == Last(ema_df.position)
        IN  /\ EQ(latest, Num(1)) <=> buy_signal
            /\ EQ(latest, Num(0 - 1)) <=> sell_signal
            /\ (~buy_signal /\ ~sell_signal) => EQ(latest, Num(0))

(* C21: in the demo script identify_crossovers with plot_ema_crossover      *)
(* marks a buy at index i exactly when the short EMA crosses above the     *)
(* long EMA at i (short <= long at i-1 and short > long at i) and a sell   *)
(* exactly when it crosses below (short >= long at i-1 and short < long    *)
(* at i), for every index i >= 1 of the series.                            *)
C21_DemoMarksAreCrossovers ==
    Returned("plot_ema_crossover") =>
        LET A == fn_out.df.ema_short
            B == fn_out.df.ema_long
        IN  \A i \in 2 .. Len(fn_out.df.close) :
               /\ i \in fn_out.buy_signals <=> (LE(A[i - 1], B[i - 1]) /\ GT(A[i], B[i]))
               /\ i \in fn_out.sell_signals <=> (GE(A[i - 1], B[i - 1]) /\ LT(A[i], B[i]))

===========================================================================
